---------------------------- MODULE Spec2Model ----------------------------
(***************************************************************************)
(* Durable agents: the Agent entity (durable_entities_agents/app.py and    *)
(* its predecessor durable_entity_agents/app.py), the InMemorySession it   *)
(* loads and persists, and the orchestrators that call it.                 *)
(*                                                                         *)
(* Strings that are split or joined by the code (entity keys, agent names, *)
(* session ids) are sequences of chunks: the chunk "-" is one dash, every  *)
(* other chunk is a dash-free piece of text.                               *)
(***************************************************************************)
EXTENDS Integers, Sequences, FiniteSets, TLC

VARIABLES
    app,                \* which package hosts the entity: "entities" | "entity"
    openai_agents,      \* durable_entities_agents._openai_agents
    pydanticai_agents,  \* durable_entities_agents._pydanticai_agents
    agents_,            \* durable_entity_agents._agents
    entity_state,       \* persisted state of every entity key
    queue,              \* per key: operations received and not yet executed
    log,                \* completed entity invocations, in execution order
    ncalls,             \* number of operations sent so far
    orch,               \* the orchestrator function of the instance
    orch_input,         \* context.get_input()
    status,             \* NotStarted | Running | Completed | Failed
    output,             \* what the orchestrator returned
    custom_status,      \* what set_custom_status published
    tasks,              \* the durable actions of the instance, as first scheduled
    events,             \* external events delivered to the instance
    replayed,           \* the actions issued by the latest pass over the function
    passes,             \* number of passes so far
    done_order,         \* task positions, in completion order
    trip,               \* one entity key on its way from its caller to the entity
    sess,               \* one InMemorySession object and the last operation on it
    mcp,                \* one call of _run_openai_agent
    setup               \* the add_* calls made so far and what they registered

entity_vars == <<app, openai_agents, pydanticai_agents, agents_,
                 entity_state, queue, log, ncalls>>

orch_vars == <<orch, orch_input, status, output, custom_status, tasks, events,
               replayed, passes, done_order>>

unit_vars == <<trip, sess, mcp, setup>>

vars == <<app, openai_agents, pydanticai_agents, agents_,
          entity_state, queue, log, ncalls,
          orch, orch_input, status, output, custom_status, tasks, events,
          replayed, passes, done_order, trip, sess, mcp, setup>>

----------------------------------------------------------------------------
(* Bounds *)

MaxCalls == 3

MaxEvents == 2

\* calls other callers send to the entities while an instance of
\* agent_run_orchestrator runs
MaxOtherCalls == 1

\* longest agent name and session id, in chunks
MaxKeyLen == 2

\* longest item list of a session under test
MaxItems == 3

\* most MCP servers an agent has
MaxServers == 3

\* most add_* calls an application makes
MaxAdds == 3

----------------------------------------------------------------------------
(* Python values *)

\* None, or a dict whose keys are the given agent names
None == [set |-> FALSE, names |-> {}]
Dict(S) == [set |-> TRUE, names |-> S]

\* `not d` for d None or a dict
Falsy(d) == ~d.set \/ d.names = {}

\* the empty dict {} of `context.get_state(lambda: {})`
EmptyState == [k \in {} |-> <<>>]

\* d.get(key, default)
dict_get(d, key, default) == IF key \in DOMAIN d THEN d[key] ELSE default

\* d[key] = value
dict_set(d, key, value) ==
    [k \in DOMAIN d \cup {key} |-> IF k = key THEN value ELSE d[k]]

\* the "--" of a string: the positions where one starts
Seps(s) == {i \in 1..(Len(s) - 1) : s[i] = "-" /\ s[i + 1] = "-"}

\* the last "--" instead of the first (rsplit)
FindSep_last(s) ==
    IF Seps(s) = {} THEN 0 ELSE CHOOSE i \in Seps(s) : \A j \in Seps(s) : i >= j

\* s.split("--", 1): position of the first "--", 0 when there is none
FindSep(s) ==
    IF Seps(s) = {} THEN 0 ELSE CHOOSE i \in Seps(s) : \A j \in Seps(s) : i <= j

split(s) ==
    LET i == FindSep(s)
    IN IF i = 0 THEN <<s>>
       ELSE <<SubSeq(s, 1, i - 1), SubSeq(s, i + 2, Len(s))>>

\* Values passed around as inputs and results: None, a str (plain text, or
\* the JSON encoding of a value), a dict
PyNone == [type |-> "none"]
PyStr(text) == [type |-> "str", text |-> text]
PyDict(d) == [type |-> "dict", d |-> d]
JsonText(value) == [type |-> "str", json |-> value]

\* isinstance(v, str)
is_str(v) == v.type = "str"

\* bool(v)
Truthy(v) ==
    CASE v.type = "none" -> FALSE
      [] v.type = "dict" -> DOMAIN v.d # {}
      [] OTHER -> ("json" \in DOMAIN v) \/ v.text # <<>>

\* json.dumps(v); json.loads(t) gives the value back, and raises on a text
\* that is not the encoding of one
json_dumps(v) == JsonText(v)

json_loads(t) ==
    IF "json" \in DOMAIN t THEN [raised |-> FALSE, value |-> t.json]
    ELSE [raised |-> TRUE, value |-> PyNone]

----------------------------------------------------------------------------
(* sessions.py *)

NoLimit == [none |-> TRUE, n |-> 0]
Limit(n) == [none |-> FALSE, n |-> n]

\* a session that starts empty whatever it is given
InMemorySession_fresh(items) == <<>>

\* one default list shared by every session made without items: a session
\* given nothing starts from what the latest invocation left
InMemorySession_shared(items) ==
    IF items # <<>> \/ log = <<>> THEN items
    ELSE dict_get(log[Len(log)].state, "session_data", <<>>)
         \o dict_get(log[Len(log)].state, "message_history", <<>>)

\* InMemorySession.__init__: self._items = items or []
InMemorySession(items) == items

\* whether get_items_sync hands out a list object of its own: self._items.copy()
\* and the slice self._items[-limit:] both build one
returns_new_list(limit) == TRUE

\* list[-n:]
LastItems(items, n) ==
    IF n = 0 \/ n >= Len(items) THEN items
    ELSE SubSeq(items, Len(items) - n + 1, Len(items))

get_items_sync(items, limit) ==
    IF limit.none THEN items ELSE LastItems(items, limit.n)

\* the new items put in front of the list
add_items_front(items, new) == new \o items

\* add_items: self._items.extend(items)
add_items(items, new) == items \o new

\* pop_item: None on an empty list, else the last item, which is removed
pop_item(items) ==
    IF items = <<>> THEN [items |-> items, returned |-> FALSE, result |-> <<>>]
    ELSE [items |-> SubSeq(items, 1, Len(items) - 1), returned |-> TRUE,
          result |-> <<items[Len(items)]>>]

\* clear_session: self._items.clear()
clear_session(items) == <<>>

----------------------------------------------------------------------------
(* The agent capability *)

\* What one run adds to the conversation: the input, then the reply
UserItem(id, input) == [call |-> id, role |-> "user", content |-> input]
AssistantItem(id) == [call |-> id, role |-> "assistant", content |-> <<"reply">>]
TurnItems(id, input) == <<UserItem(id, input), AssistantItem(id)>>

CapOutcomes == {"ok", "raise", "raise_after_input"}

\* agents.Runner.run(agent, input, session=session): reads the session, and
\* saves the turn into it with add_items; `cap` is what the model service does.
Runner_run(items, input, id, cap) ==
    IF cap = "ok"
    THEN [raised |-> FALSE, items |-> add_items(items, TurnItems(id, input)),
          final_output |-> <<"reply">>]
    ELSE IF cap = "raise_after_input"
    THEN [raised |-> TRUE, items |-> add_items(items, <<UserItem(id, input)>>),
          final_output |-> <<>>]
    ELSE [raised |-> TRUE, items |-> items, final_output |-> <<>>]

\* _run_openai_agent: the run, between the connects and the cleanups
run_openai_agent(items, input, id, cap) == Runner_run(items, input, id, cap)

\* _run_pydanticai_agent: result.all_messages() is the history passed in
\* followed by the messages of this run
run_pydanticai_agent(message_history, input, id, cap) ==
    IF cap = "ok"
    THEN [raised |-> FALSE, output |-> <<"reply">>,
          all_messages |-> message_history \o TurnItems(id, input)]
    ELSE [raised |-> TRUE, output |-> <<>>, all_messages |-> message_history]

----------------------------------------------------------------------------
(* The entity function.  ctx is the DurableEntityContext of one invocation:  *)
(* its persisted state (exists, state), operation_name, entity_key, input.  *)
(* The outcome records what the function did with the context.              *)

\* a context that always starts from the initializer's value
get_state_initial(ctx) == EmptyState

\* context.get_state(lambda: {})
get_state(ctx) == IF ctx.exists THEN ctx.state ELSE EmptyState

Outcome(ctx, error, ran, loaded, has_result, result, set_state, state) ==
    [id |-> ctx.id, key |-> ctx.entity_key, op |-> ctx.operation_name,
     error |-> error, ran |-> ran, loaded |-> loaded,
     has_result |-> has_result, result |-> result,
     set_state |-> set_state, wrote |-> IF set_state THEN DOMAIN state ELSE {},
     exists |-> ctx.exists \/ set_state,
     state |-> state,
     before |-> [exists |-> ctx.exists, state |-> ctx.state]]

\* every operation taken for a run
is_run_always(operation) == TRUE

\* if operation == "run"
is_run(operation) == operation = "run"

\* the function raised before touching anything
Raised(ctx, error) ==
    Outcome(ctx, error, "none", <<>>, FALSE, <<>>, FALSE, ctx.state)

\* the capability raised: the list the session was built on is the list held
\* in the loaded state when that list was not empty (items or [])
RaisedInRun(ctx, ran, loaded, key, items) ==
    Outcome(ctx, "CapabilityFailure", ran, loaded, FALSE, <<>>, FALSE,
            IF ctx.exists /\ key \in DOMAIN ctx.state /\ ctx.state[key] # <<>>
            THEN dict_set(ctx.state, key, items) ELSE ctx.state)

\* lines 65-76: the OpenAI agent
agent_run_openai(ctx, state, cap) ==
    LET session_data == dict_get(state, "session_data", <<>>)
        session == InMemorySession(session_data)
        input == IF ~is_str(ctx.input) THEN json_dumps(ctx.input) ELSE ctx.input
        result == run_openai_agent(session, input, ctx.id, cap)
    IN IF result.raised
       THEN RaisedInRun(ctx, "openai", session_data, "session_data", result.items)
       ELSE Outcome(ctx, "none", "openai", session_data, TRUE, result.final_output,
                    TRUE, dict_set(state, "session_data",
                                   get_items_sync(result.items, NoLimit)))

\* lines 78-92: the Pydantic-AI agent
agent_run_pydanticai(ctx, state, cap) ==
    LET message_history == dict_get(state, "message_history", <<>>)
        input == IF ~is_str(ctx.input) THEN json_dumps(ctx.input) ELSE ctx.input
        result == run_pydanticai_agent(message_history, input, ctx.id, cap)
    IN IF result.raised
       THEN Outcome(ctx, "CapabilityFailure", "pydanticai", message_history,
                    FALSE, <<>>, FALSE, ctx.state)
       ELSE Outcome(ctx, "none", "pydanticai", message_history, TRUE, result.output,
                    TRUE, dict_set(state, "message_history", result.all_messages))

\* durable_entities_agents.agent
agent(ctx, cap) ==
    LET state == get_state(ctx)
        parts == split(ctx.entity_key)
    IN IF Len(parts) # 2 THEN Raised(ctx, "ValueError: unpack")
       ELSE IF Falsy(openai_agents) /\ Falsy(pydanticai_agents)
       THEN Raised(ctx, "No agents defined")
       ELSE IF is_run(ctx.operation_name)
       THEN IF ~openai_agents.set THEN Raised(ctx, "AttributeError")
            ELSE IF parts[1] \in openai_agents.names
            THEN agent_run_openai(ctx, state, cap)
            ELSE IF ~pydanticai_agents.set THEN Raised(ctx, "AttributeError")
            ELSE IF parts[1] \in pydanticai_agents.names
            THEN agent_run_pydanticai(ctx, state, cap)
            ELSE Raised(ctx, "AgentNotFound")
       ELSE Outcome(ctx, "none", "none", <<>>, FALSE, <<>>, FALSE, ctx.state)

\* durable_entity_agents.agent, lines 42-49: the run branch
entity_agent_run(ctx, state, cap) ==
    LET session_data == dict_get(state, "session_data", <<>>)
        session == InMemorySession(session_data)
        result == Runner_run(session, ctx.input, ctx.id, cap)
    IN IF result.raised
       THEN RaisedInRun(ctx, "openai", session_data, "session_data", result.items)
       ELSE Outcome(ctx, "none", "openai", session_data, TRUE, result.final_output,
                    TRUE, dict_set(state, "session_data",
                                   get_items_sync(result.items, NoLimit)))

\* durable_entity_agents.agent
entity_agent(ctx, cap) ==
    LET state == get_state(ctx)
        parts == split(ctx.entity_key)
    IN IF Len(parts) # 2 THEN Raised(ctx, "ValueError: unpack")
       ELSE IF Falsy(agents_) THEN Raised(ctx, "No agents defined")
       ELSE IF is_run(ctx.operation_name)
       THEN IF parts[1] \notin agents_.names THEN Raised(ctx, "AgentNotFound")
            ELSE entity_agent_run(ctx, state, cap)
       ELSE Outcome(ctx, "none", "none", <<>>, FALSE, <<>>, TRUE, state)

----------------------------------------------------------------------------
(* The entity runtime: one mailbox per key, one invocation at a time *)

AgentA == <<"a">>
AgentB == <<"b">>

\* "a--s" and "b--s", as run_agent and agent_run_orchestrator build them
EntityKeys == {<<"a", "-", "-", "s">>, <<"b", "-", "-", "s">>}

\* a str input and a structured input
StrInput == PyStr(<<"hi">>)
ObjInput == PyDict([q |-> <<"hi">>])

\* the operations callers send: run with either input, and an operation the
\* entity does not know
Calls == {[op |-> "run", input |-> StrInput], [op |-> "run", input |-> ObjInput],
          [op |-> "reset", input |-> StrInput]}

\* The registries once the entity has been registered on the app: add_* is the
\* only way to register it, and each add_* sets its registry to a dict.
EntitiesRegistries ==
    {r \in [openai : {None, Dict({}), Dict({AgentA})},
            pydanticai : {None, Dict({}), Dict({AgentA, AgentB})}] :
        r.openai.set \/ r.pydanticai.set}

EntityRegistries == {Dict({}), Dict({AgentA})}

NoEntity == [exists |-> FALSE, state |-> EmptyState]

NotSet == [set |-> FALSE, val |-> PyNone]

\* no key under way
NoTrip == [pc |-> "idle", agent_name |-> <<>>, session_id |-> <<>>,
           entity_id |-> <<>>, parts |-> <<>>]

\* no session object
NoSession == [op |-> "none", items |-> <<>>, before |-> <<>>,
              result |-> <<>>, returned |-> FALSE,
              limit |-> NoLimit, new_list |-> FALSE]

\* no call of _run_openai_agent
NoMcp == [pc |-> "idle", servers |-> 0, i |-> 0, connected_servers |-> <<>>,
          connect_failed |-> {}, cleaned |-> <<>>, cleanup_raised |-> FALSE,
          ran |-> "no", end |-> "none"]

\* the add_* calls are not followed
NoSetup == [has_run |-> FALSE, entity |-> 0, orchestration |-> 0, route |-> 0,
            calls |-> <<>>]

NoUnit == trip = NoTrip /\ sess = NoSession /\ mcp = NoMcp /\ setup = NoSetup

\* no orchestrator instance
NoInstance ==
    /\ orch = "none"
    /\ orch_input = PyNone
    /\ status = "NotStarted"
    /\ output = NotSet
    /\ custom_status = NotSet
    /\ tasks = <<>>
    /\ events = <<>>
    /\ replayed = <<>>
    /\ passes = 0
    /\ done_order = <<>>

EntityInit ==
    /\ app \in {"entities", "entity"}
    /\ IF app = "entities"
       THEN /\ \E r \in EntitiesRegistries :
                  /\ openai_agents = r.openai
                  /\ pydanticai_agents = r.pydanticai
            /\ agents_ = None
       ELSE /\ openai_agents = None
            /\ pydanticai_agents = None
            /\ agents_ \in EntityRegistries
    /\ entity_state = [k \in EntityKeys |-> NoEntity]
    /\ queue = [k \in EntityKeys |-> <<>>]
    /\ log = <<>>
    /\ ncalls = 0
    /\ NoInstance
    /\ NoUnit

\* context.call_entity(entity_id, operation, input): the operation joins the
\* mailbox of its key
Signal(k, op, input) ==
    /\ ncalls < MaxCalls
    /\ ncalls' = ncalls + 1
    /\ queue' = [queue EXCEPT ![k] =
                    Append(@, [id |-> ncalls + 1, op |-> op, input |-> input,
                               behind |-> {m.id : m \in {queue[k][i] : i \in DOMAIN queue[k]}}])]
    /\ UNCHANGED <<app, openai_agents, pydanticai_agents, agents_, entity_state, log>>
    /\ UNCHANGED orch_vars
    /\ UNCHANGED unit_vars

\* which operation of a mailbox runs next: the oldest
NextInMailbox(q) == 1

\* the context the entity function is invoked with
Context(k, m) ==
    [id |-> m.id, entity_key |-> k, operation_name |-> m.op, input |-> m.input,
     exists |-> entity_state[k].exists, state |-> entity_state[k].state]

\* the entity function registered by the package in use
EntityFunction(ctx, cap) ==
    IF app = "entities" THEN agent(ctx, cap) ELSE entity_agent(ctx, cap)

\* one invocation: the function runs to its end on the persisted state of the
\* key, and the state held by the context afterwards is what is persisted
Dispatch(k, cap) ==
    /\ queue[k] # <<>>
    /\ LET i == NextInMailbox(queue[k])
           m == queue[k][i]
           r == EntityFunction(Context(k, m), cap)
       IN /\ queue' = [queue EXCEPT ![k] =
                         SubSeq(@, 1, i - 1) \o SubSeq(@, i + 1, Len(@))]
          /\ entity_state' = [entity_state EXCEPT ![k] =
                                [exists |-> r.exists, state |-> r.state]]
          /\ log' = Append(log, r @@ [behind |-> m.behind])
    /\ UNCHANGED <<app, openai_agents, pydanticai_agents, agents_, ncalls>>
    /\ UNCHANGED orch_vars
    /\ UNCHANGED unit_vars

EntityNext ==
    \/ \E k \in EntityKeys, c \in Calls : Signal(k, c.op, c.input)
    \/ \E k \in EntityKeys, cap \in CapOutcomes : Dispatch(k, cap)

SpecEntity == EntityInit /\ [][EntityNext]_vars

----------------------------------------------------------------------------
(* Entity claims *)

\* the conversation persisted for a key, whichever framework keeps it
SessionIn(state) ==
    dict_get(state, "session_data", <<>>) \o dict_get(state, "message_history", <<>>)

SessionOf(k) == SessionIn(entity_state[k].state)

\* the successful runs on a key, in execution order
OkRuns(k) ==
    LET ok(e) == e.key = k /\ e.op = "run" /\ e.error = "none"
    IN SelectSeq(log, ok)

\* the items of the given calls, as they stand in a conversation
ItemsOfCalls(items, ids) ==
    LET from(it) == it.call \in ids
    IN SelectSeq(items, from)

IsTurn(items, i, id) ==
    /\ items[2 * i - 1].call = id /\ items[2 * i - 1].role = "user"
    /\ items[2 * i].call = id /\ items[2 * i].role = "assistant"

\* C1: after N successful runs on a key, its persisted history holds the items
\* of all N runs, each run's input then its reply, in call order, none lost or
\* duplicated; from one successful run to the next the history never shrinks.
C1_HistoryKeepsEveryRun ==
    \A k \in EntityKeys :
        LET runs == OkRuns(k)
            kept == ItemsOfCalls(SessionOf(k), {runs[i].id : i \in DOMAIN runs})
        IN /\ Len(kept) = 2 * Len(runs)
           /\ \A i \in DOMAIN runs : IsTurn(kept, i, runs[i].id)
           /\ \A i \in DOMAIN runs :
                /\ Len(SessionIn(runs[i].state)) = Len(runs[i].loaded) + 2
                /\ i > 1 => Len(runs[i].loaded) >= Len(SessionIn(runs[i - 1].state))

C1_Witness ==
    \E k \in EntityKeys : Len(OkRuns(k)) = MaxCalls /\ queue[k] = <<>>

\* completed invocations on the same key, e1 still in the mailbox when e2 arrived
Concurrent(i, j) ==
    /\ log[i].key = log[j].key
    /\ log[i].id \in log[j].behind

\* the invocation on the key of log[j] that ran last before it (0: none)
PreviousOnKey(j) ==
    LET before == {i \in 1..(j - 1) : log[i].key = log[j].key}
    IN IF before = {} THEN 0 ELSE CHOOSE i \in before : \A h \in before : h <= i

\* C2: two runs sent to one key while the first is still waiting run one at a
\* time in arrival order, the later one loads what the invocation before it
\* persisted, and the persisted session ends up with the items of both.
C2_ConcurrentRunsSerialized ==
    \A i, j \in DOMAIN log :
        (Concurrent(i, j) /\ log[i].op = "run" /\ log[j].op = "run") =>
            /\ i < j
            /\ LET p == PreviousOnKey(j)
               IN /\ p >= i
                  /\ log[j].before = [exists |-> log[p].exists, state |-> log[p].state]
                  /\ log[j].error = "none" => log[j].loaded = SessionIn(log[p].state)
            /\ (log[i].error = "none" /\ log[j].error = "none") =>
                 LET kept == ItemsOfCalls(SessionOf(log[i].key), {log[i].id, log[j].id})
                 IN /\ Len(kept) = 4
                    /\ IsTurn(kept, 1, log[i].id)
                    /\ IsTurn(kept, 2, log[j].id)

C2_Witness ==
    \E i, j \in DOMAIN log :
        /\ Concurrent(i, j) /\ j = i + 1
        /\ log[i].op = "run" /\ log[j].op = "run"
        /\ log[i].error = "none" /\ log[j].error = "none"

\* the key splits in two and some registry holds an agent
Dispatchable(k) ==
    /\ Len(split(k)) = 2
    /\ IF app = "entities"
       THEN ~(Falsy(openai_agents) /\ Falsy(pydanticai_agents))
       ELSE ~Falsy(agents_)

\* C10 as stated: an operation other than run raises nothing, sets no result,
\* invokes no capability, leaves the state as it was and still writes it back,
\* for every key and every registry content.
C10_UnknownOperationNoOp ==
    \A i \in DOMAIN log :
        log[i].op # "run" =>
            /\ log[i].error = "none"
            /\ ~log[i].has_result
            /\ log[i].ran = "none"
            /\ SessionIn(log[i].state) = SessionIn(log[i].before.state)
            /\ log[i].set_state

\* C10 as amended: when the key holds the separator and some registry holds an
\* agent, an operation other than run raises nothing, sets no result, invokes
\* no capability and leaves the state as it was; durable_entity_agents.agent
\* then writes the state back, durable_entities_agents.agent does not.
\* Otherwise the function raises, and writes nothing either.
C10_UnknownOperationAmended ==
    \A i \in DOMAIN log :
        log[i].op # "run" =>
            /\ ~log[i].has_result
            /\ log[i].ran = "none"
            /\ SessionIn(log[i].state) = SessionIn(log[i].before.state)
            /\ (log[i].error = "none") = Dispatchable(log[i].key)
            /\ log[i].set_state = (Dispatchable(log[i].key) /\ app = "entity")
            /\ log[i].set_state => log[i].state = get_state([exists |-> log[i].before.exists,
                                                             state |-> log[i].before.state])

C10_Witness ==
    \E i, j \in DOMAIN log :
        /\ i < j /\ log[i].key = log[j].key
        /\ log[i].op = "run" /\ log[i].error = "none"
        /\ log[j].op # "run" /\ log[j].error = "none"

\* the agent name of a key, as the entity function reads it
NameOf(k) == split(k)[1]

\* some registry of the package in use holds a capability under that name
Registered(name) ==
    IF app = "entities"
    THEN name \in openai_agents.names \cup pydanticai_agents.names
    ELSE name \in agents_.names

\* C11: a run on a key whose agent name no registry holds fails with the
\* agent-not-found error, invokes no capability, sets no result and writes no
\* state.
C11_UnregisteredRunNotFound ==
    \A i \in DOMAIN log :
        (log[i].op = "run" /\ ~Registered(NameOf(log[i].key))) =>
            /\ log[i].error = "AgentNotFound"
            /\ log[i].ran = "none"
            /\ ~log[i].has_result
            /\ ~log[i].set_state

\* C12: when the capability raises during a run, the invocation fails, no
\* result is set, no state is written, and the session held in the entity's
\* state is what it was before the call, whatever the capability had added to
\* the session object before it failed.
C12_CapabilityFailureLeavesSession ==
    \A i \in DOMAIN log :
        (log[i].op = "run" /\ log[i].ran # "none" /\ ~log[i].has_result) =>
            /\ log[i].error = "CapabilityFailure"
            /\ ~log[i].set_state
            /\ SessionIn(log[i].state) = SessionIn(log[i].before.state)

\* the ids of the completed invocations on a key
CallsOn(k) == {log[i].id : i \in {j \in DOMAIN log : log[j].key = k}}

\* every item of the key's session was put there by an invocation on that key
OwnItemsOnly(k) ==
    \A i \in DOMAIN SessionOf(k) : SessionOf(k)[i].call \in CallsOn(k)

\* C17: an invocation on a key changes the persisted state of no other key,
\* it starts from the state of its own key, and whatever the interleaving the
\* session of a key holds nothing but the items of the invocations on that
\* key.
C17_KeysDoNotInterfere ==
    [][/\ \A k \in EntityKeys :
             entity_state'[k] # entity_state[k] =>
                 /\ Len(log') = Len(log) + 1
                 /\ log'[Len(log')].key = k
       /\ Len(log') > Len(log) =>
             log'[Len(log')].before = entity_state[log'[Len(log')].key]
       /\ \A k \in EntityKeys : OwnItemsOnly(k)']_vars

\* runs on two keys, interleaved
C17_Witness ==
    \E i, j, h \in DOMAIN log :
        /\ i < j /\ j < h
        /\ log[i].key = log[h].key /\ log[j].key # log[i].key
        /\ \A e \in {i, j, h} : log[e].op = "run" /\ log[e].error = "none"

\* what the Pydantic-AI path keeps for a key
HistoryIn(state) == dict_get(state, "message_history", <<>>)

\* the capability was reached: the invocation ended well or the capability
\* itself failed
ReachedCapability(e) == e.error \in {"none", "CapabilityFailure"}

\* C21: with durable_entities_agents, a run on a key whose agent name is in the
\* Pydantic-AI registry and not in the OpenAI registry goes to the Pydantic-AI
\* agent, whether or not add_openai_agents was ever called: the agent is run
\* on the message_history loaded from the state, and when it succeeds the
\* result is set and the history, grown by this run, is stored.  A name in
\* both registries goes to the OpenAI agent, which writes session_data only.
C21_PydanticOnlyNameRunsPydantic ==
    \A i \in DOMAIN log :
        (app = "entities" /\ log[i].op = "run") =>
            /\ ( /\ NameOf(log[i].key) \in pydanticai_agents.names
                 /\ NameOf(log[i].key) \notin openai_agents.names ) =>
                   /\ ReachedCapability(log[i])
                   /\ log[i].ran = "pydanticai"
                   /\ log[i].loaded = HistoryIn(log[i].before.state)
                   /\ log[i].error = "none" =>
                         /\ log[i].has_result /\ log[i].set_state
                         /\ HistoryIn(log[i].state) =
                                log[i].loaded \o TurnItems(log[i].id,
                                    log[i].state["message_history"][Len(log[i].loaded) + 1].content)
            /\ ( /\ NameOf(log[i].key) \in pydanticai_agents.names
                 /\ NameOf(log[i].key) \in openai_agents.names ) =>
                   /\ ReachedCapability(log[i])
                   /\ log[i].ran = "openai"
                   /\ log[i].error = "none" =>
                         /\ HistoryIn(log[i].state) = HistoryIn(log[i].before.state)
                         /\ "session_data" \in DOMAIN log[i].state

----------------------------------------------------------------------------
(* Orchestrator functions.  One pass runs the function from its first line:  *)
(* outs[i] is the outcome of the i-th durable task the pass creates, ev the  *)
(* external events delivered so far, uu[n] the value uuid.uuid4() gives the *)
(* n-th time run_agent asks for one in this pass.  The pass ends at the     *)
(* first yield on a task that is not complete, at a return or at a raise.   *)
(* Its actions are those of the tasks the function has yielded: a task that *)
(* was created and never yielded is not handed to the engine.               *)

Pending == [st |-> "pending", val |-> PyNone]
Failed == [st |-> "failed", val |-> PyNone]
Ok(val) == [st |-> "ok", val |-> val]

\* the outcome of the i-th task of the pass
outcome(outs, i) == IF i <= Len(outs) THEN outs[i] ELSE Pending

Yield(actions, custom) ==
    [actions |-> actions, end |-> "yield", output |-> NotSet, custom |-> custom]
\* the exception caught and None returned in its place
Raise_swallowed(actions, custom) ==
    [actions |-> actions, end |-> "return",
     output |-> [set |-> TRUE, val |-> PyNone], custom |-> custom]

Raise(actions, custom) ==
    [actions |-> actions, end |-> "raise", output |-> NotSet, custom |-> custom]
Return(actions, custom, value) ==
    [actions |-> actions, end |-> "return",
     output |-> [set |-> TRUE, val |-> value], custom |-> custom]

\* f"{v}" of a str or None
format(v) == IF v.type = "none" THEN <<"None">> ELSE v.text

\* df.EntityId("Agent", f"{agent_name}--{session_id}")
EntityId(agent_name, session_id) == agent_name \o <<"-", "-">> \o session_id

\* context.call_entity(entity_id, operation, input)
call_entity(key, op, input) ==
    [kind |-> "call_entity", target |-> key, op |-> op, input |-> input]

\* context.call_activity(name, input)
call_activity(name, input) ==
    [kind |-> "call_activity", target |-> <<name>>, op |-> "", input |-> input]

\* context.wait_for_external_event(name): the action, and the task's outcome
wait_for_external_event(name) ==
    [kind |-> "wait_for_external_event", target |-> <<name>>, op |-> "",
     input |-> PyNone]

\* the first delivered event of that name resolves the wait
event_outcome(ev, name) ==
    LET hits == {i \in DOMAIN ev : ev[i].name = name}
    IN IF hits = {} THEN Pending
       ELSE Ok(ev[CHOOSE i \in hits : \A j \in hits : i <= j].payload)

\* context.task_all(tasks): fails when a child failed, completes when every
\* child has, with the children's results in the order of `tasks`
task_all(outs, positions) ==
    IF \E i \in DOMAIN positions : outcome(outs, positions[i]).st = "failed" THEN Failed
    ELSE IF \E i \in DOMAIN positions : outcome(outs, positions[i]).st = "pending"
    THEN Pending
    ELSE Ok([i \in DOMAIN positions |-> outs[positions[i]].val])

\* run_agent(ctx, agent_name, session_id, input); uuid is str(uuid.uuid4())
run_agent(agent_name, session_id, input, uuid) ==
    LET sid == IF session_id = <<>> THEN uuid ELSE session_id
    IN call_entity(EntityId(agent_name, sid), "run", input)

\* the result of the entity call dropped: the function returns None
agent_run_orchestrator_no_result(input, outs, ev, uu) ==
    LET d == IF Truthy(input) THEN input.d ELSE EmptyState
        a1 == call_entity(EntityId(format(dict_get(d, "agent_name", PyNone)),
                                   format(dict_get(d, "session_id", PyNone))),
                          "run", dict_get(d, "operation_input", PyNone))
        result == outcome(outs, 1)
    IN IF result.st = "pending" THEN Yield(<<a1>>, NotSet)
       ELSE IF result.st = "failed" THEN Raise(<<a1>>, NotSet)
       ELSE Return(<<a1>>, NotSet, PyNone)

\* durable_entities_agents.agent_run_orchestrator
agent_run_orchestrator(input, outs, ev, uu) ==
    LET d == IF Truthy(input) THEN input.d ELSE EmptyState
        agent_name == dict_get(d, "agent_name", PyNone)
        session_id == dict_get(d, "session_id", PyNone)
        operation_input == dict_get(d, "operation_input", PyNone)
        a1 == call_entity(EntityId(format(agent_name), format(session_id)),
                          "run", operation_input)
        result == outcome(outs, 1)
    IN IF result.st = "pending" THEN Yield(<<a1>>, NotSet)
       ELSE IF result.st = "failed" THEN Raise(<<a1>>, NotSet)
       ELSE Return(<<a1>>, NotSet, result.val)

\* the two translations awaited one after the other
multilingual_writer_sequential(input, outs, ev, uu) ==
    IF ~Truthy(input) THEN Raise(<<>>, NotSet)
    ELSE LET a1 == run_agent(<<"english_paragraph_writer_agent">>, <<>>, input, uu[1])
             english == outcome(outs, 1)
             a2 == run_agent(<<"french_translator_agent">>, <<>>, english.val, uu[2])
             a3 == run_agent(<<"spanish_translator_agent">>, <<>>, english.val, uu[3])
         IN IF english.st = "pending" THEN Yield(<<a1>>, NotSet)
            ELSE IF english.st = "failed" THEN Raise(<<a1>>, NotSet)
            ELSE IF outcome(outs, 2).st = "pending" THEN Yield(<<a1, a2>>, NotSet)
            ELSE IF outcome(outs, 2).st = "failed" THEN Raise(<<a1, a2>>, NotSet)
            ELSE IF outcome(outs, 3).st = "pending" THEN Yield(<<a1, a2, a3>>, NotSet)
            ELSE IF outcome(outs, 3).st = "failed" THEN Raise(<<a1, a2, a3>>, NotSet)
            ELSE Return(<<a1, a2, a3>>, NotSet,
                        [english |-> english.val, french |-> outs[2].val,
                         spanish |-> outs[3].val])

\* the two results unpacked the wrong way round
multilingual_writer_swapped(input, outs, ev, uu) ==
    IF ~Truthy(input) THEN Raise(<<>>, NotSet)
    ELSE LET a1 == run_agent(<<"english_paragraph_writer_agent">>, <<>>, input, uu[1])
             english == outcome(outs, 1)
             a2 == run_agent(<<"french_translator_agent">>, <<>>, english.val, uu[2])
             a3 == run_agent(<<"spanish_translator_agent">>, <<>>, english.val, uu[3])
             both == task_all(outs, <<2, 3>>)
         IN IF english.st = "pending" THEN Yield(<<a1>>, NotSet)
            ELSE IF english.st = "failed" THEN Raise(<<a1>>, NotSet)
            ELSE IF both.st = "pending" THEN Yield(<<a1, a2, a3>>, NotSet)
            ELSE IF both.st = "failed" THEN Raise(<<a1, a2, a3>>, NotSet)
            ELSE Return(<<a1, a2, a3>>, NotSet,
                        [english |-> english.val, french |-> both.val[2],
                         spanish |-> both.val[1]])

\* multilingual_writer.functions.multilingual_writer_orchestrator
multilingual_writer_orchestrator(input, outs, ev, uu) ==
    IF ~Truthy(input) THEN Raise(<<>>, NotSet)
    ELSE LET a1 == run_agent(<<"english_paragraph_writer_agent">>, <<>>, input, uu[1])
             english == outcome(outs, 1)
             french_task == run_agent(<<"french_translator_agent">>, <<>>,
                                      english.val, uu[2])
             spanish_task == run_agent(<<"spanish_translator_agent">>, <<>>,
                                       english.val, uu[3])
             both == task_all(outs, <<2, 3>>)
         IN IF english.st = "pending" THEN Yield(<<a1>>, NotSet)
            ELSE IF english.st = "failed" THEN Raise(<<a1>>, NotSet)
            ELSE IF both.st = "pending"
            THEN Yield(<<a1, french_task, spanish_task>>, NotSet)
            ELSE IF both.st = "failed"
            THEN Raise(<<a1, french_task, spanish_task>>, NotSet)
            ELSE Return(<<a1, french_task, spanish_task>>, NotSet,
                        [english |-> english.val, french |-> both.val[1],
                         spanish |-> both.val[2]])

\* f"Current weather in {city}"
WeatherIn(city) == PyStr(<<"Current weather in ">> \o city)

\* multi_sdk_agents.functions.multi_sdk_weather_agents_orchestrator
multi_sdk_weather_agents_orchestrator(input, outs, ev, uu) ==
    IF ~Truthy(input) THEN Raise(<<>>, NotSet)
    ELSE IF "city1" \notin DOMAIN input.d THEN Raise(<<>>, NotSet)
    ELSE LET city1_weather == run_agent(<<"openai_weather_agent">>, <<>>,
                                        WeatherIn(input.d["city1"]), uu[1])
         IN IF "city2" \notin DOMAIN input.d THEN Raise(<<>>, NotSet)
            ELSE LET city2_weather == run_agent(<<"pydanticai_weather_agent">>, <<>>,
                                                WeatherIn(input.d["city2"]), uu[2])
                     both == task_all(outs, <<1, 2>>)
                 IN IF both.st = "pending"
                    THEN Yield(<<city1_weather, city2_weather>>, NotSet)
                    ELSE IF both.st = "failed"
                    THEN Raise(<<city1_weather, city2_weather>>, NotSet)
                    ELSE Return(<<city1_weather, city2_weather>>, NotSet,
                                [city1_weather |-> both.val[1],
                                 city2_weather |-> both.val[2]])

\* context.set_custom_status never called
Published_never(response) == NotSet

\* context.set_custom_status(response): `response` is the one dict that is
\* published and changed afterwards, so the custom status of the last pass is
\* the dict as returned
Published(response) == [set |-> TRUE, val |-> response]

OtherEventName == "other_event"

\* the event travel_planner_orchestrator waits for
ApprovalEventName == "approval_event"

\* response["approval_status"] = "rejected"
Rejected(response) == [response EXCEPT !.approval_status = "rejected"]

\* the booking stored, the approval status left as it was
Booked_still_pending(response, booking_result) ==
    [response EXCEPT !.booking_details = booking_result]

\* response["booking_details"] = booking_result
\* response["approval_status"] = "approved"
Booked(response, booking_result) ==
    [response EXCEPT !.booking_details = booking_result,
                     !.approval_status = "approved"]

\* the booking scheduled whatever the approval says
travel_after_approval_always_books(response, actions, outs, ev) ==
    LET approval_result == event_outcome(ev, ApprovalEventName)
        a5 == call_activity("book_travel_activity", PyDict(response))
        booking_result == outcome(outs, 5)
    IN IF approval_result.st = "pending" THEN Yield(actions, Published(response))
       ELSE IF booking_result.st = "pending"
       THEN Yield(Append(actions, a5), Published(response))
       ELSE IF booking_result.st = "failed"
       THEN Raise(Append(actions, a5), Published(response))
       ELSE Return(Append(actions, a5),
                   Published(Booked(response, booking_result.val)),
                   Booked(response, booking_result.val))

\* lines 51-61: the approval and the booking
travel_after_approval(response, actions, outs, ev) ==
    LET approval_result == event_outcome(ev, ApprovalEventName)
        a5 == call_activity("book_travel_activity", PyDict(response))
        booking_result == outcome(outs, 5)
    IN IF approval_result.st = "pending" THEN Yield(actions, Published(response))
       ELSE IF approval_result.val # "approved"
       THEN Return(actions, Published(Rejected(response)), Rejected(response))
       ELSE IF booking_result.st = "pending"
       THEN Yield(Append(actions, a5), Published(response))
       ELSE IF booking_result.st = "failed"
       THEN Raise(Append(actions, a5), Published(response))
       ELSE Return(Append(actions, a5),
                   Published(Booked(response, booking_result.val)),
                   Booked(response, booking_result.val))

\* lines 29-49: the itinerary, the local recommendations, the custom status
travel_after_destination(input, top_destination, a1, outs, ev, uu) ==
    LET special_requirements == dict_get(input.d, "specialRequirements", PyStr(<<>>))
        duration_in_days == dict_get(input.d, "durationInDays", 3)
        itinerary_request ==
            [destination_name |-> top_destination["destination_name"],
             duration_in_days |-> duration_in_days,
             budget |-> dict_get(input.d, "budget", PyStr(<<"$1000">>)),
             travel_dates |-> dict_get(input.d, "travelDates", PyStr(<<"TBD">>)),
             special_requirements |-> special_requirements]
        a2 == run_agent(<<"itinerary_planner_agent">>, <<>>,
                        PyDict(itinerary_request), uu[2])
        itinerary_json == outcome(outs, 2)
        itinerary == json_loads(itinerary_json.val)
        local_recs_request ==
            [destination_name |-> top_destination["destination_name"],
             duration_in_days |-> duration_in_days,
             preferred_cuisine |-> PyStr(<<"Any">>),
             include_hidden_gems |-> TRUE,
             family_friendly |-> TRUE]
        a3 == run_agent(<<"local_recommendations_agent">>, <<>>,
                        PyDict(local_recs_request), uu[3])
        local_recs_json == outcome(outs, 3)
        local_recs == json_loads(local_recs_json.val)
        response == [destination |-> top_destination,
                     itinerary |-> itinerary.value,
                     local_recommendations |-> local_recs.value,
                     approval_status |-> "pending",
                     booking_details |-> PyNone]
        a4 == wait_for_external_event(ApprovalEventName)
    IN IF itinerary_json.st = "pending" THEN Yield(<<a1, a2>>, NotSet)
       ELSE IF itinerary_json.st = "failed" THEN Raise(<<a1, a2>>, NotSet)
       ELSE IF itinerary.raised THEN Raise(<<a1, a2>>, NotSet)
       ELSE IF local_recs_json.st = "pending" THEN Yield(<<a1, a2, a3>>, NotSet)
       ELSE IF local_recs_json.st = "failed" THEN Raise(<<a1, a2, a3>>, NotSet)
       ELSE IF local_recs.raised THEN Raise(<<a1, a2, a3>>, NotSet)
       ELSE travel_after_approval(response, <<a1, a2, a3, a4>>, outs, ev)

\* travel_planner.functions.travel_planner_orchestrator
travel_planner_orchestrator(input, outs, ev, uu) ==
    IF ~Truthy(input) THEN Raise(<<>>, NotSet)
    ELSE LET special_requirements ==
                 dict_get(input.d, "specialRequirements", PyStr(<<>>))
             a1 == run_agent(<<"destination_expert_agent">>, <<>>,
                             special_requirements, uu[1])
             destinations_json == outcome(outs, 1)
             destinations == json_loads(destinations_json.val)
             recommendations ==
                 dict_get(destinations.value.d, "recommendations", <<>>)
         IN IF destinations_json.st = "pending" THEN Yield(<<a1>>, NotSet)
            ELSE IF destinations_json.st = "failed" THEN Raise(<<a1>>, NotSet)
            ELSE IF destinations.raised THEN Raise(<<a1>>, NotSet)
            ELSE IF recommendations = <<>> THEN Raise(<<a1>>, NotSet)
            ELSE IF "destination_name" \notin DOMAIN recommendations[1]
            THEN Raise(<<a1>>, NotSet)
            ELSE travel_after_destination(input, recommendations[1], a1, outs, ev, uu)

\* book_travel_activity(booking_input); h is hash(str(booking_input)) % 10000,
\* which the interpreter's hash seed decides
book_travel_activity(booking_input, h) ==
    [booked |-> TRUE, booking_id |-> <<"TRV-", h>>, status |-> "confirmed",
     message |-> "Travel booking confirmed successfully"]

----------------------------------------------------------------------------
(* The orchestration instance *)

Orchestrators == {"agent_run_orchestrator", "multilingual_writer_orchestrator",
                  "multi_sdk_weather_agents_orchestrator",
                  "travel_planner_orchestrator"}

\* what an instance is started with
OrchInputs(name) ==
    CASE name = "agent_run_orchestrator" ->
           {PyNone,
            PyDict([agent_name |-> PyStr(<<"a">>), operation_input |-> ObjInput]),
            PyDict([agent_name |-> PyStr(<<"a">>), session_id |-> PyStr(<<"s">>),
                    operation_input |-> ObjInput])}
      [] name = "multilingual_writer_orchestrator" ->
           {PyNone, PyStr(<<"autumn">>)}
      [] name = "multi_sdk_weather_agents_orchestrator" ->
           {PyNone, PyDict([city1 |-> <<"Paris">>, city2 |-> <<"Tokyo">>]),
            PyDict([city1 |-> <<"Paris">>]), PyDict([city2 |-> <<"Tokyo">>])}
      [] OTHER ->
           {PyNone, PyDict(EmptyState),
            PyDict([specialRequirements |-> PyStr(<<"beach">>),
                    durationInDays |-> 5])}

\* str(uuid.uuid4()): a value no earlier call has given.  uuid4(p)[n] is what
\* the n-th call of pass p gets.
uuid4(p) == [n \in 1..3 |-> <<"uuid", ToString(3 * p + n)>>]

\* what the agent named in an entity key may answer
AgentAnswers(key) ==
    LET name == split(key)[1]
    IN CASE name = <<"destination_expert_agent">> ->
              {JsonText(PyDict([recommendations |->
                                  <<[destination_name |-> PyStr(<<"Paris">>)]>>])),
               JsonText(PyDict(EmptyState)),
               PyStr(name \o <<": sorry">>)}
         [] name = <<"itinerary_planner_agent">> ->
              {JsonText(PyDict([daily_plan |-> <<>>])), PyStr(name \o <<": sorry">>)}
         [] name = <<"local_recommendations_agent">> ->
              {JsonText(PyDict([attractions |-> <<>>])), PyStr(name \o <<": sorry">>)}
         [] OTHER -> {PyStr(name \o <<": 1">>), PyStr(name \o <<": 2">>)}

\* hash(str(booking_input)) % 10000, formatted :04d
Hashes == {"0007", "1234"}

\* how a scheduled entity call or activity may end
TaskResults(action) ==
    {Failed} \cup
    IF action.kind = "call_entity"
    THEN {Ok(v) : v \in AgentAnswers(action.target)}
    ELSE {Ok(book_travel_activity(action.input, h)) : h \in Hashes}

\* the events a client raises
Events == {[name |-> "approval_event", payload |-> "approved"],
           [name |-> "approval_event", payload |-> "rejected"],
           [name |-> "other_event", payload |-> "approved"]}

OrchInit ==
    /\ app = "entities"
    /\ openai_agents = None
    /\ pydanticai_agents = None
    /\ agents_ = None
    /\ entity_state = [k \in EntityKeys |-> NoEntity]
    /\ queue = [k \in EntityKeys |-> <<>>]
    /\ log = <<>>
    /\ ncalls = 0
    /\ orch \in Orchestrators
    /\ orch_input \in OrchInputs(orch)
    /\ status = "NotStarted"
    /\ output = NotSet
    /\ custom_status = NotSet
    /\ tasks = <<>>
    /\ events = <<>>
    /\ replayed = <<>>
    /\ passes = 0
    /\ done_order = <<>>
    /\ NoUnit

\* the orchestrator function registered under a name
Orchestrate(name, input, outs, ev, uu) ==
    CASE name = "agent_run_orchestrator" ->
           agent_run_orchestrator(input, outs, ev, uu)
      [] name = "multilingual_writer_orchestrator" ->
           multilingual_writer_orchestrator(input, outs, ev, uu)
      [] name = "multi_sdk_weather_agents_orchestrator" ->
           multi_sdk_weather_agents_orchestrator(input, outs, ev, uu)
      [] OTHER -> travel_planner_orchestrator(input, outs, ev, uu)

OutcomesOf(ts) == [i \in DOMAIN ts |-> [st |-> ts[i].st, val |-> ts[i].val]]

\* One pass: the function is run from the start against the recorded
\* outcomes; the actions it issues beyond the recorded ones are scheduled,
\* the recorded ones are matched by position.
Pass(ts, ev, uu) ==
    LET r == Orchestrate(orch, orch_input, OutcomesOf(ts), ev, uu)
        n == Len(ts)
        all == ts \o [i \in 1..(Len(r.actions) - n) |->
                        [action |-> r.actions[n + i], pass |-> passes + 1,
                         st |-> "pending", val |-> PyNone]]
    IN /\ tasks' = [i \in DOMAIN all |->
                      IF all[i].action.kind = "wait_for_external_event"
                      THEN LET o == event_outcome(ev, all[i].action.target[1])
                           IN [all[i] EXCEPT !.st = o.st, !.val = o.val]
                      ELSE all[i]]
       /\ replayed' = r.actions
       /\ passes' = passes + 1
       /\ status' = CASE r.end = "return" -> "Completed"
                      [] r.end = "raise" -> "Failed"
                      [] OTHER -> "Running"
       /\ output' = r.output
       /\ custom_status' = IF r.custom.set THEN r.custom ELSE custom_status

\* client.start_new(name, None, input): the first pass
Start ==
    /\ status = "NotStarted"
    /\ Pass(tasks, events, uuid4(passes))
    /\ UNCHANGED <<events, done_order, orch, orch_input>>
    /\ UNCHANGED entity_vars
    /\ UNCHANGED unit_vars

\* every message wakes the instance up, whatever its state
Wakes_always(st) == TRUE

\* the engine wakes an instance up only while it is running: what reaches a
\* Completed or Failed instance is dropped
Wakes(st) == st = "Running"

\* the instance is left as it is
Dropped == UNCHANGED <<status, output, custom_status, replayed, passes>>

\* a scheduled entity call or activity ends, and the instance is woken up
TaskCompleted(i, res) ==
    /\ status # "NotStarted"
    /\ tasks[i].st = "pending"
    /\ tasks[i].action.kind # "wait_for_external_event"
    /\ LET ts == [tasks EXCEPT ![i].st = res.st, ![i].val = res.val]
           order == Append(done_order, i)
       IN /\ done_order' = order
          /\ IF Wakes(status) THEN Pass(ts, events, uuid4(passes))
             ELSE tasks' = ts /\ Dropped
    /\ UNCHANGED <<events, orch, orch_input>>
    /\ UNCHANGED entity_vars
    /\ UNCHANGED unit_vars

\* client.raise_event(instance_id, name, payload), and the wake-up; `at`
\* records the status of the instance when the event was raised
RaiseEvent(name, payload) ==
    /\ status # "NotStarted"
    /\ Len(events) < MaxEvents
    /\ LET ev == Append(events, [name |-> name, payload |-> payload, at |-> status])
       IN /\ events' = ev
          /\ IF Wakes(status) THEN Pass(tasks, ev, uuid4(passes))
             ELSE tasks' = tasks /\ Dropped
    /\ UNCHANGED <<done_order, orch, orch_input>>
    /\ UNCHANGED entity_vars
    /\ UNCHANGED unit_vars

OrchNext ==
    \/ Start
    \/ \E i \in DOMAIN tasks : \E res \in TaskResults(tasks[i].action) :
          TaskCompleted(i, res)
    \/ \E e \in Events : RaiseEvent(e.name, e.payload)

SpecOrch == OrchInit /\ [][OrchNext]_vars

----------------------------------------------------------------------------
(* Orchestrator claims *)

IsTravel == orch = "travel_planner_orchestrator"
IsWriter == orch = "multilingual_writer_orchestrator"
IsWeather == orch = "multi_sdk_weather_agents_orchestrator"

\* the payloads of the approval events delivered, in delivery order
Approvals ==
    LET named(e) == e.name = "approval_event"
        hits == SelectSeq(events, named)
    IN [i \in DOMAIN hits |-> hits[i].payload]

\* positions of the scheduled book_travel_activity calls
Bookings ==
    {i \in DOMAIN tasks : /\ tasks[i].action.kind = "call_activity"
                          /\ tasks[i].action.target = <<"book_travel_activity">>}

\* the agent an entity call is addressed to
AgentOf(action) == split(action.target)[1]

IsAgentRun == orch = "agent_run_orchestrator"

\* the instance was started with no input, or with an input that lacks a field
\* its orchestrator requires
MissingInput ==
    \/ ~Truthy(orch_input)
    \/ IsAgentRun /\ ~({"agent_name", "session_id"} \subseteq DOMAIN orch_input.d)
    \/ IsWeather /\ ~({"city1", "city2"} \subseteq DOMAIN orch_input.d)

\* C13: an instance started with missing input or missing required fields is
\* Failed as soon as it has started, with no entity call or activity scheduled.
C13_MissingInputFailsAtOnce ==
    (MissingInput /\ status # "NotStarted") =>
        /\ status = "Failed"
        /\ tasks = <<>>

Terminal == status \in {"Completed", "Failed"}

\* the actions scheduled so far
Scheduled(ts) == [i \in DOMAIN ts |-> ts[i].action]

\* C14: once the instance is Completed or Failed, every step leaves its
\* status, its output and its custom status as they are, schedules no action
\* and does not run the function again; so does the delivery of an
\* approval_event to a terminal travel_planner instance.
C14_TerminalIsFinal ==
    [][Terminal =>
          /\ status' = status
          /\ output' = output
          /\ custom_status' = custom_status
          /\ Scheduled(tasks') = Scheduled(tasks)
          /\ passes' = passes]_vars

\* an approval_event has been raised on a travel_planner instance that was
\* already Completed or Failed
C14_Witness ==
    /\ IsTravel /\ Terminal
    /\ \E i \in DOMAIN events :
          events[i].name = "approval_event" /\ events[i].at = status

\* some scheduled entity call or activity has failed
AnyFailed(ts) == \E i \in DOMAIN ts : ts[i].st = "failed"

\* C19: from the step in which an awaited entity call or activity fails, be it
\* one child of a task_all, the instance is Failed and has no output, and no
\* step schedules anything more; the custom status travel_planner published
\* before the failure stays as it was.
C19_TaskFailureFailsInstance ==
    [][AnyFailed(tasks') =>
          /\ status' = "Failed"
          /\ ~output'.set
          /\ Scheduled(tasks') = Scheduled(tasks)
          /\ (IsTravel /\ custom_status.set) => custom_status' = custom_status]_vars

\* the booking activity of travel_planner has failed after the pending status
\* was published
C19_Witness ==
    /\ IsTravel /\ Len(tasks) = 5 /\ tasks[5].st = "failed"
    /\ status = "Failed" /\ ~output.set
    /\ custom_status.set /\ custom_status.val.approval_status = "pending"

\* C3: a pass that runs the function again from the start issues, position by
\* position, exactly the actions first scheduled (same kind, entity key,
\* operation and input), and nothing more.
C3_ReplayIssuesRecordedActions ==
    /\ Len(replayed) <= Len(tasks)
    /\ \A i \in DOMAIN replayed : replayed[i] = tasks[i].action

\* C4: book_travel_activity is scheduled only once an approval_event with
\* payload "approved" has been delivered; when the approval delivered says
\* anything else the instance is Completed with approval_status "rejected"
\* and no booking.
C4_NoBookingWithoutApproval ==
    IsTravel =>
        /\ Bookings # {} => \E i \in DOMAIN Approvals : Approvals[i] = "approved"
        /\ \A i \in DOMAIN replayed :
              replayed[i].kind = "call_activity" =>
                  \E j \in DOMAIN Approvals : Approvals[j] = "approved"
        /\ (Len(tasks) >= 4 /\ Approvals # <<>> /\ Approvals[1] # "approved") =>
              /\ status = "Completed"
              /\ output.set /\ output.val.approval_status = "rejected"
              /\ Bookings = {}

C4_Witness ==
    /\ IsTravel /\ status = "Completed"
    /\ Approvals # <<>> /\ Approvals[1] = "rejected"
    /\ output.val.approval_status = "rejected"

\* the three agent calls have succeeded
ThreeCallsSucceeded ==
    /\ IsTravel /\ Len(tasks) >= 3
    /\ \A i \in 1..3 : tasks[i].action.kind = "call_entity" /\ tasks[i].st = "ok"

\* the instance is suspended on the approval, its status published
PendingApproval ==
    /\ status = "Running"
    /\ custom_status.set /\ custom_status.val.approval_status = "pending"
    /\ Len(tasks) = 4
    /\ tasks[4].action.kind = "wait_for_external_event"
    /\ tasks[4].st = "pending"

\* C5 as stated: once the three agent calls have succeeded, and until an
\* approval_event is delivered, the instance has published approval_status
\* "pending" and is Running with nothing scheduled but the wait.
C5_PendingOnceCallsSucceeded ==
    (ThreeCallsSucceeded /\ Approvals = <<>>) => PendingApproval

\* C5 as amended: the same, once the three calls have succeeded with answers
\* that json.loads accepts.
C5_PendingOnceAnswersParsed ==
    (/\ ThreeCallsSucceeded
     /\ \A i \in 1..3 : ~json_loads(tasks[i].val).raised
     /\ Approvals = <<>>) => PendingApproval

C5_Witness ==
    /\ ThreeCallsSucceeded /\ PendingApproval
    /\ Len(events) = MaxEvents

\* C6: once an "approved" approval_event has reached the pending instance,
\* book_travel_activity is scheduled exactly once, and once it has completed
\* the instance is Completed with approval_status "approved" and the
\* activity's result as booking_details.  (The wake-up is part of the step
\* that completes the activity.)
C6_ApprovedBooksOnce ==
    (IsTravel /\ Len(tasks) >= 4 /\ Approvals # <<>> /\ Approvals[1] = "approved") =>
        /\ Bookings = {5}
        /\ Cardinality({i \in DOMAIN replayed : replayed[i].kind = "call_activity"}) = 1
        /\ tasks[5].st = "pending" => status = "Running"
        /\ tasks[5].st = "ok" =>
              /\ status = "Completed"
              /\ output.set /\ output.val.approval_status = "approved"
              /\ output.val.booking_details = tasks[5].val

C6_Witness ==
    /\ IsTravel /\ status = "Completed" /\ Bookings = {5}
    /\ output.val.approval_status = "approved"
    /\ output.val.booking_details \in {book_travel_activity(tasks[5].action.input, h) : h \in Hashes}

\* C7: while the instance is suspended on the approval, a step leaves it
\* suspended, with the same custom status and the same scheduled tasks, unless
\* the step delivers an event named approval_event.
C7_OnlyApprovalEventResumes ==
    [][(IsTravel /\ PendingApproval) =>
          \/ PendingApproval' /\ custom_status' = custom_status /\ tasks' = tasks
          \/ /\ Len(events') = Len(events) + 1
             /\ events'[Len(events')].name = "approval_event"]_vars

C7_Witness ==
    /\ IsTravel /\ PendingApproval
    /\ Len(events) = MaxEvents
    /\ \A i \in DOMAIN events : events[i].name = "other_event"

\* C8: the two calls of a fan-out are scheduled by the same pass, so no state
\* has one of them scheduled without the other, and the function suspends on
\* the pair.
C8_FanOutScheduledTogether ==
    /\ (IsWriter /\ Len(tasks) >= 2) =>
          /\ Len(tasks) = 3
          /\ tasks[2].pass = tasks[3].pass
          /\ AgentOf(tasks[2].action) = <<"french_translator_agent">>
          /\ AgentOf(tasks[3].action) = <<"spanish_translator_agent">>
    /\ (IsWeather /\ Len(tasks) >= 1 /\ "city2" \in DOMAIN orch_input.d) =>
          /\ Len(tasks) = 2
          /\ tasks[1].pass = tasks[2].pass
          /\ AgentOf(tasks[1].action) = <<"openai_weather_agent">>
          /\ AgentOf(tasks[2].action) = <<"pydanticai_weather_agent">>

C8_Witness ==
    /\ IsWriter /\ status = "Running" /\ Len(tasks) = 3
    /\ tasks[2].st = "pending" /\ tasks[3].st = "pending"

\* the answer was given by the agent of that name
AnsweredBy(text, name) == text \in AgentAnswers(EntityId(<<name>>, <<"s">>))

\* C9: whichever child completes first, 'french' is the French translator's
\* result and 'spanish' the Spanish translator's, 'city1_weather' the result
\* of the first call and 'city2_weather' that of the second.
C9_TaskAllKeepsInputOrder ==
    /\ (IsWriter /\ status = "Completed") =>
          /\ output.val.french = tasks[2].val
          /\ output.val.spanish = tasks[3].val
          /\ AnsweredBy(output.val.french, "french_translator_agent")
          /\ AnsweredBy(output.val.spanish, "spanish_translator_agent")
    /\ (IsWeather /\ status = "Completed") =>
          /\ output.val.city1_weather = tasks[1].val
          /\ output.val.city2_weather = tasks[2].val
          /\ AnsweredBy(output.val.city1_weather, "openai_weather_agent")
          /\ AnsweredBy(output.val.city2_weather, "pydanticai_weather_agent")

C9_Witness ==
    /\ IsWriter /\ status = "Completed"
    /\ done_order = <<1, 3, 2>>

----------------------------------------------------------------------------
(* agent_run_orchestrator end to end: the instance, the entity it calls and *)
(* the other callers of that entity                                         *)

\* what agent_run_http starts the instance with
RunInputs ==
    {PyDict([agent_name |-> PyStr(n), session_id |-> PyStr(<<"s">>),
             operation_input |-> i]) : n \in {AgentA, AgentB}, i \in {StrInput, ObjInput}}

\* the id of the operation the instance sends; other callers' have 1, 2, ...
InstanceCall == 0

RunInit ==
    /\ app \in {"entities", "entity"}
    /\ IF app = "entities"
       THEN /\ \E r \in EntitiesRegistries :
                  /\ openai_agents = r.openai
                  /\ pydanticai_agents = r.pydanticai
            /\ agents_ = None
       ELSE /\ openai_agents = None
            /\ pydanticai_agents = None
            /\ agents_ \in EntityRegistries
    /\ entity_state = [k \in EntityKeys |-> NoEntity]
    /\ queue = [k \in EntityKeys |-> <<>>]
    /\ log = <<>>
    /\ ncalls = 0
    /\ orch = "agent_run_orchestrator"
    /\ orch_input \in RunInputs
    /\ status = "NotStarted"
    /\ output = NotSet
    /\ custom_status = NotSet
    /\ tasks = <<>>
    /\ events = <<>>
    /\ replayed = <<>>
    /\ passes = 0
    /\ done_order = <<>>
    /\ NoUnit

\* the first pass; the entity call it schedules joins the mailbox of its key
RunStart ==
    /\ status = "NotStarted"
    /\ Pass(tasks, events, uuid4(passes))
    /\ LET a == tasks'[1].action
       IN queue' = [queue EXCEPT ![a.target] =
                      Append(@, [id |-> InstanceCall, op |-> a.op, input |-> a.input,
                                 behind |-> {m.id : m \in {queue[a.target][i] :
                                                              i \in DOMAIN queue[a.target]}}])]
    /\ UNCHANGED <<events, done_order, orch, orch_input>>
    /\ UNCHANGED <<app, openai_agents, pydanticai_agents, agents_, entity_state, log, ncalls>>
    /\ UNCHANGED unit_vars

\* what the caller of an entity operation gets: its result, or a failed task
\* when the entity function raised
EntityResult(e) == IF e.error = "none" THEN Ok(PyStr(e.result)) ELSE Failed

\* the entity has executed the instance's operation: its outcome completes the
\* task, and the instance is woken up
RunReturn ==
    \E j \in DOMAIN log :
        /\ log[j].id = InstanceCall
        /\ TaskCompleted(1, EntityResult(log[j]))

\* another caller sends an operation to an entity
OtherCall(k, op, input) ==
    /\ ncalls < MaxOtherCalls
    /\ Signal(k, op, input)

RunNext ==
    \/ RunStart
    \/ \E k \in EntityKeys, c \in Calls : OtherCall(k, c.op, c.input)
    \/ \E k \in EntityKeys, cap \in CapOutcomes : Dispatch(k, cap)
    \/ RunReturn

SpecRun == RunInit /\ [][RunNext]_vars

\* the entity key the instance was started for
RunKey == EntityId(orch_input.d["agent_name"].text, orch_input.d["session_id"].text)

\* the instance's operations waiting in the mailbox of a key, and those
\* executed
Waiting(k) == {i \in DOMAIN queue[k] : queue[k][i].id = InstanceCall}
Executed == {j \in DOMAIN log : log[j].id = InstanceCall}

\* the input as the capability of that package gets it
CapabilityInput(input) ==
    IF app = "entities" /\ ~is_str(input) THEN json_dumps(input) ELSE input

\* C18: agent_run_orchestrator started with an agent name, a session id and
\* an operation input schedules one entity call and no more, on the key
\* agentName--sessionId, with operation run and that input; when the call has
\* returned the instance is Completed with the result of the call, and the
\* invocation has left the session of the key as it found it plus the turn of
\* that one run.
C18_AgentRunEndToEnd ==
    status # "NotStarted" =>
        /\ Scheduled(tasks) = <<call_entity(RunKey, "run", orch_input.d["operation_input"])>>
        /\ \A k \in EntityKeys \ {RunKey} : Waiting(k) = {}
        /\ Cardinality(Waiting(RunKey)) + Cardinality(Executed) = 1
        /\ status = "Completed" <=> tasks[1].st = "ok"
        /\ tasks[1].st = "ok" =>
              \E j \in DOMAIN log :
                  /\ log[j].id = InstanceCall
                  /\ log[j].key = RunKey /\ log[j].op = "run"
                  /\ log[j].has_result
                  /\ output = [set |-> TRUE, val |-> PyStr(log[j].result)]
                  /\ SessionIn(log[j].state) =
                        SessionIn(log[j].before.state)
                        \o TurnItems(InstanceCall,
                                     CapabilityInput(orch_input.d["operation_input"]))

\* the instance has completed on a key that already held a conversation
C18_Witness ==
    /\ status = "Completed"
    /\ output.set /\ output.val = PyStr(<<"reply">>)
    /\ \E j \in DOMAIN log :
          /\ log[j].id = InstanceCall
          /\ SessionIn(log[j].before.state) # <<>>
          /\ Len(SessionOf(RunKey)) = Len(SessionIn(log[j].before.state)) + 2

----------------------------------------------------------------------------
(* The entity key, from the caller that builds it to the entity that splits *)
(* it                                                                       *)

\* the pieces names and session ids are made of: a dash, and dash-free text
Chunks == {"a", "-"}

Strings == UNION {[1..n -> Chunks] : n \in 0..MaxKeyLen}

\* no entity, no registry
NoEntities ==
    /\ app = "entities"
    /\ openai_agents = None
    /\ pydanticai_agents = None
    /\ agents_ = None
    /\ entity_state = [k \in EntityKeys |-> NoEntity]
    /\ queue = [k \in EntityKeys |-> <<>>]
    /\ log = <<>>
    /\ ncalls = 0

KeyInit ==
    /\ NoEntities
    /\ NoInstance
    /\ \E name \in Strings, sid \in Strings :
          trip = [NoTrip EXCEPT !.pc = "caller", !.agent_name = name,
                                !.session_id = sid]
    /\ sess = NoSession
    /\ mcp = NoMcp
    /\ setup = NoSetup

\* run_agent line 155, agent_run_orchestrator line 127: the caller builds the
\* key of the entity it calls
MakeEntityId ==
    /\ trip.pc = "caller"
    /\ trip' = [trip EXCEPT !.pc = "entity",
                            !.entity_id = EntityId(trip.agent_name, trip.session_id)]
    /\ UNCHANGED entity_vars
    /\ UNCHANGED orch_vars
    /\ UNCHANGED <<sess, mcp, setup>>

\* agent line 57: the entity splits the key it is invoked on
SplitEntityKey ==
    /\ trip.pc = "entity"
    /\ trip' = [trip EXCEPT !.pc = "done", !.parts = split(trip.entity_id)]
    /\ UNCHANGED entity_vars
    /\ UNCHANGED orch_vars
    /\ UNCHANGED <<sess, mcp, setup>>

KeyNext == MakeEntityId \/ SplitEntityKey

SpecKey == KeyInit /\ [][KeyNext]_vars

\* the string holds a "--"
HasSep(s) == Seps(s) # {}

\* the string ends with a dash
EndsWithDash(s) == s # <<>> /\ s[Len(s)] = "-"

\* the entity got the name and the session id the caller gave
RoundTrip ==
    /\ Len(trip.parts) = 2
    /\ trip.parts[1] = trip.agent_name
    /\ trip.parts[2] = trip.session_id

\* C15 as stated: for every agent name that holds no "--" and every session
\* id, the key agentName + "--" + sessionId splits at its first "--" into
\* exactly (agentName, sessionId).
C15_KeyRoundTrip ==
    (trip.pc = "done" /\ ~HasSep(trip.agent_name)) => RoundTrip

\* C15 as amended: the same for every agent name that holds no "--" and does
\* not end with a dash.
C15_KeyRoundTripNoTrailingDash ==
    (trip.pc = "done" /\ ~HasSep(trip.agent_name) /\ ~EndsWithDash(trip.agent_name))
        => RoundTrip

\* a session id that holds a "--", under a name that is not empty
C15_Witness ==
    /\ trip.pc = "done" /\ RoundTrip
    /\ HasSep(trip.session_id)
    /\ trip.agent_name # <<>> /\ ~EndsWithDash(trip.agent_name)

----------------------------------------------------------------------------
(* One InMemorySession object under the operations of its class *)

\* the items callers store
SessionItems == {"x", "y"}

ItemLists(n) == UNION {[1..m -> SessionItems] : m \in 0..n}

Limits == {NoLimit} \cup {Limit(n) : n \in 0..MaxItems}

SessionInit ==
    /\ NoEntities
    /\ NoInstance
    /\ trip = NoTrip
    /\ mcp = NoMcp
    /\ setup = NoSetup
    /\ \E given \in ItemLists(1) :
          sess = [NoSession EXCEPT !.op = "__init__", !.items = InMemorySession(given)]

\* what an operation leaves in `sess`
After(op, items, returned, result) ==
    [op |-> op, items |-> items, before |-> sess.items,
     returned |-> returned, result |-> result,
     limit |-> NoLimit, new_list |-> FALSE]

session_frame ==
    /\ UNCHANGED entity_vars
    /\ UNCHANGED orch_vars
    /\ UNCHANGED <<trip, mcp, setup>>

session_get_items(limit) ==
    /\ sess.op # "none"
    /\ sess' = [After("get_items", sess.items, TRUE,
                      get_items_sync(sess.items, limit))
                   EXCEPT !.limit = limit, !.new_list = returns_new_list(limit)]
    /\ session_frame

\* the caller appends an item to the list get_items gave it: the session's
\* list grows with it when the two are one list object
session_mutate_returned(item) ==
    /\ sess.op \in {"get_items", "mutate_returned"}
    /\ Len(sess.result) <= MaxItems
    /\ sess' = [sess EXCEPT !.op = "mutate_returned",
                            !.before = sess.items,
                            !.result = Append(@, item),
                            !.items = IF sess.new_list THEN @ ELSE Append(@, item)]
    /\ session_frame

session_add_items(new) ==
    /\ sess.op # "none"
    /\ Len(sess.items) + Len(new) <= MaxItems
    /\ sess' = After("add_items", add_items(sess.items, new), FALSE, <<>>)
    /\ session_frame

session_pop_item ==
    /\ sess.op # "none"
    /\ LET r == pop_item(sess.items)
       IN sess' = After("pop_item", r.items, r.returned, r.result)
    /\ session_frame

session_clear_session ==
    /\ sess.op # "none"
    /\ sess' = After("clear_session", clear_session(sess.items), FALSE, <<>>)
    /\ session_frame

SessionNext ==
    \/ \E limit \in Limits : session_get_items(limit)
    \/ \E item \in SessionItems : session_mutate_returned(item)
    \/ \E new \in ItemLists(2) : session_add_items(new)
    \/ session_pop_item
    \/ session_clear_session

SpecSession == SessionInit /\ [][SessionNext]_vars

IsPrefix(a, b) == Len(a) <= Len(b) /\ SubSeq(b, 1, Len(a)) = a

\* C16 as stated: whatever operation other than clear_session was applied
\* last, the item list before it is a prefix of the item list after it.
C16_AppendOnlyUnlessCleared ==
    sess.op \notin {"none", "clear_session"} => IsPrefix(sess.before, sess.items)

\* C16 as amended: the same for every operation other than clear_session and
\* pop_item; pop_item takes the last item off, and nothing else.
C16_AppendOnlyUnlessClearedOrPopped ==
    /\ sess.op \notin {"none", "clear_session", "pop_item"} =>
          IsPrefix(sess.before, sess.items)
    /\ sess.op = "pop_item" =>
          /\ IsPrefix(sess.items, sess.before)
          /\ Len(sess.items) = IF sess.before = <<>> THEN 0 ELSE Len(sess.before) - 1

\* items were appended to a list that held some already
C16_Witness ==
    /\ sess.op = "add_items"
    /\ sess.before # <<>>
    /\ Len(sess.items) > Len(sess.before)
    /\ IsPrefix(sess.before, sess.items)

\* the m most recent items of a list, oldest first
MostRecent(items, m) == SubSeq(items, Len(items) - m + 1, Len(items))

Min(a, b) == IF a <= b THEN a ELSE b

\* C22: get_items with limit n returns exactly the min(n, length) most recent
\* items, oldest first, for every n >= 0 (none for n = 0), and every item when
\* the limit is None; it leaves the stored items as they were, and so does a
\* caller that appends to the list it was given.
C22_GetItemsReturnsMostRecent ==
    /\ sess.op = "get_items" =>
          /\ sess.items = sess.before
          /\ sess.result = IF sess.limit.none THEN sess.items
                           ELSE MostRecent(sess.items,
                                           Min(sess.limit.n, Len(sess.items)))
    /\ sess.op = "mutate_returned" => sess.items = sess.before

----------------------------------------------------------------------------
(* _run_openai_agent: the servers of agent.mcp_servers are numbered          *)
(* 1..servers in list order; `cleaned` lists the servers cleanup was called  *)
(* on, in call order.                                                        *)

\* cleanup only when the run has returned (no finally)
after_run_no_finally(ran) == IF ran = "raised" THEN "done" ELSE "cleanup"

\* lines 106-110, try/finally: the cleanups follow the run, however it ended
after_run(ran) == "cleanup"

McpInit ==
    /\ NoEntities
    /\ NoInstance
    /\ trip = NoTrip
    /\ sess = NoSession
    /\ setup = NoSetup
    /\ \E n \in 0..MaxServers :
          mcp = [NoMcp EXCEPT !.pc = "connect", !.servers = n, !.i = 1]

mcp_frame ==
    /\ UNCHANGED entity_vars
    /\ UNCHANGED orch_vars
    /\ UNCHANGED <<trip, sess, setup>>

\* lines 99-104, one turn of the loop: server.connect() returns or raises
mcp_connect(connects) ==
    /\ mcp.pc = "connect"
    /\ mcp.i <= mcp.servers
    /\ mcp' = IF connects
              THEN [mcp EXCEPT !.i = @ + 1,
                               !.connected_servers = Append(@, mcp.i)]
              ELSE [mcp EXCEPT !.i = @ + 1, !.connect_failed = @ \cup {mcp.i}]
    /\ mcp_frame

\* lines 106-108: Runner.run returns or raises
mcp_run(cap) ==
    /\ mcp.pc = "connect"
    /\ mcp.i > mcp.servers
    /\ LET result == run_openai_agent(<<>>, StrInput, 1, cap)
           ran == IF result.raised THEN "raised" ELSE "returned"
       IN mcp' = [mcp EXCEPT !.ran = ran, !.pc = after_run(ran), !.i = 1,
                             !.end = IF after_run(ran) = "done" THEN ran ELSE @]
    /\ mcp_frame

\* lines 109-110, one turn of the loop: server.cleanup() returns, or raises
\* and ends the function
mcp_cleanup(cleans) ==
    /\ mcp.pc = "cleanup"
    /\ mcp.i <= Len(mcp.connected_servers)
    /\ mcp' = IF cleans
              THEN [mcp EXCEPT !.i = @ + 1,
                               !.cleaned = Append(@, mcp.connected_servers[mcp.i])]
              ELSE [mcp EXCEPT !.cleaned = Append(@, mcp.connected_servers[mcp.i]),
                               !.cleanup_raised = TRUE,
                               !.pc = "done", !.end = "raised"]
    /\ mcp_frame

\* line 112, or the exception of the run leaving the finally block
mcp_return ==
    /\ mcp.pc = "cleanup"
    /\ mcp.i > Len(mcp.connected_servers)
    /\ mcp' = [mcp EXCEPT !.pc = "done", !.end = mcp.ran]
    /\ mcp_frame

McpNext ==
    \/ \E connects \in BOOLEAN : mcp_connect(connects)
    \/ \E cap \in CapOutcomes : mcp_run(cap)
    \/ \E cleans \in BOOLEAN : mcp_cleanup(cleans)
    \/ mcp_return

SpecMcp == McpInit /\ [][McpNext]_vars

\* how many times cleanup was called on a server
Cleanups(server) ==
    Cardinality({j \in DOMAIN mcp.cleaned : mcp.cleaned[j] = server})

Connected == {mcp.connected_servers[j] : j \in DOMAIN mcp.connected_servers}

----------------------------------------------------------------------------
(* Set-up: the add_* calls an application makes on its FunctionApp.  `setup` *)
(* holds _setup_has_run, how many times the entity, the orchestrator and    *)
(* the HTTP route were registered on the app, and the calls made so far.    *)

\* the dictionaries applications register; a call without `agents` passes
\* the default {}
AgentDicts == {Dict({}), Dict({AgentA}), Dict({AgentA, AgentB})}

AddFunctions == {"add_openai_agents", "add_pydanticai_agents", "add_agents"}

\* a guard on the truth of the registry: an empty dict passes it
already_initialized_truthy(registry) == ~Falsy(registry)

\* if _openai_agents is not None (likewise _pydanticai_agents, _agents)
already_initialized(registry) == registry.set

\* the three registrations on the app
register(s) ==
    [s EXCEPT !.entity = @ + 1, !.orchestration = @ + 1, !.route = @ + 1]

\* durable_entities_agents._setup
_setup(s) == IF s.has_run THEN s ELSE [register(s) EXCEPT !.has_run = TRUE]

\* the call joins the calls made so far
Called(s, fn, agents, raised) ==
    [s EXCEPT !.calls = Append(@, [fn |-> fn, agents |-> agents, raised |-> raised])]

SetupInit ==
    /\ app \in {"entities", "entity"}
    /\ openai_agents = None
    /\ pydanticai_agents = None
    /\ agents_ = None
    /\ entity_state = [k \in EntityKeys |-> NoEntity]
    /\ queue = [k \in EntityKeys |-> <<>>]
    /\ log = <<>>
    /\ ncalls = 0
    /\ NoInstance
    /\ NoUnit

setup_frame ==
    /\ UNCHANGED <<app, entity_state, queue, log, ncalls>>
    /\ UNCHANGED orch_vars
    /\ UNCHANGED <<trip, sess, mcp>>

\* durable_entities_agents.add_openai_agents
add_openai_agents(agents) ==
    /\ app = "entities"
    /\ Len(setup.calls) < MaxAdds
    /\ IF already_initialized(openai_agents)
       THEN /\ setup' = Called(setup, "add_openai_agents", agents, TRUE)
            /\ UNCHANGED openai_agents
       ELSE /\ openai_agents' = agents
            /\ setup' = Called(_setup(setup), "add_openai_agents", agents, FALSE)
    /\ UNCHANGED <<pydanticai_agents, agents_>>
    /\ setup_frame

\* durable_entities_agents.add_pydanticai_agents
add_pydanticai_agents(agents) ==
    /\ app = "entities"
    /\ Len(setup.calls) < MaxAdds
    /\ IF already_initialized(pydanticai_agents)
       THEN /\ setup' = Called(setup, "add_pydanticai_agents", agents, TRUE)
            /\ UNCHANGED pydanticai_agents
       ELSE /\ pydanticai_agents' = agents
            /\ setup' = Called(_setup(setup), "add_pydanticai_agents", agents, FALSE)
    /\ UNCHANGED <<openai_agents, agents_>>
    /\ setup_frame

\* durable_entity_agents.add_agents
add_agents(agents) ==
    /\ app = "entity"
    /\ Len(setup.calls) < MaxAdds
    /\ IF already_initialized(agents_)
       THEN /\ setup' = Called(setup, "add_agents", agents, TRUE)
            /\ UNCHANGED agents_
       ELSE /\ agents_' = agents
            /\ setup' = Called(register(setup), "add_agents", agents, FALSE)
    /\ UNCHANGED <<openai_agents, pydanticai_agents>>
    /\ setup_frame

SetupNext ==
    \/ \E agents \in AgentDicts : add_openai_agents(agents)
    \/ \E agents \in AgentDicts : add_pydanticai_agents(agents)
    \/ \E agents \in AgentDicts : add_agents(agents)

SpecSetup == SetupInit /\ [][SetupNext]_vars

\* the positions of the calls made to one add_* function, and the first of them
CallsTo(fn) == {i \in DOMAIN setup.calls : setup.calls[i].fn = fn}

FirstCallTo(fn) == CHOOSE i \in CallsTo(fn) : \A j \in CallsTo(fn) : i <= j

RegistryOf(fn) ==
    CASE fn = "add_openai_agents" -> openai_agents
      [] fn = "add_pydanticai_agents" -> pydanticai_agents
      [] OTHER -> agents_

\* C23: whatever add_* calls were made, the first call to a function set its
\* registry and every later call to the same function raised "Agents already
\* initialized" and left the registry as the first call set it, an empty
\* dictionary included; and once any call was made, the entity, the
\* orchestrator and the HTTP route are each registered on the app exactly once.
C23_RegistrySingleInit ==
    /\ \A fn \in AddFunctions :
          IF CallsTo(fn) = {} THEN RegistryOf(fn) = None
          ELSE /\ RegistryOf(fn) = setup.calls[FirstCallTo(fn)].agents
               /\ \A i \in CallsTo(fn) :
                     setup.calls[i].raised = (i # FirstCallTo(fn))
    /\ setup.calls # <<>> =>
          setup.entity = 1 /\ setup.orchestration = 1 /\ setup.route = 1

\* add_openai_agents registered an empty dictionary, add_pydanticai_agents was
\* called too, and a second add_openai_agents with a non-empty dictionary
\* raised
C23_Witness ==
    \E i, j, h \in DOMAIN setup.calls :
        /\ i < h
        /\ setup.calls[i].fn = "add_openai_agents"
        /\ setup.calls[i].agents = Dict({})
        /\ setup.calls[j].fn = "add_pydanticai_agents" /\ ~setup.calls[j].raised
        /\ setup.calls[h].fn = "add_openai_agents"
        /\ setup.calls[h].agents # Dict({})
        /\ setup.calls[h].raised

====
